---- MODULE Spec2Model ----
(***************************************************************************)
(* Model of nucypher/cli/actions/network.py: the seednode URI aggregation  *)
(* (load_static_nodes, aggregate_seednode_uris), the teacher bootstrap     *)
(* loop (load_seednodes) and the external address resolution               *)
(* (get_external_ip_from_centralized_source,                               *)
(* determine_external_ip_address).                                         *)
(*                                                                         *)
(* Python values are represented as follows.  A list is a sequence.  A     *)
(* dict is a function whose DOMAIN is its key set.  An exception leaving a *)
(* function is the field "raised" of the function's result ("none" when    *)
(* the function returns).  A list object shared by the caller and the      *)
(* callee is a variable that both read and write.                          *)
(***************************************************************************)
EXTENDS Integers, Sequences, FiniteSets, TLC

\* ------------------------------------------------------------------ bounds
\* Longest URI list of one source entry (one dict value, or --teacher list).
MaxLen ==
    2

\* Most URI entries over the three sources together.
MaxUris ==
    3

\* Most calls of aggregate_seednode_uris the caller makes in a row.
MaxCalls ==
    2

\* ---------------------------------------------------------------- universes
Domain ==
    {"alpha", "beta"}

URI ==
    {"A", "B"}

Address ==
    {"203.0.113.7", "198.51.100.9"}

BoundedSeq(S, n) ==
    UNION {[1..k -> S] : k \in 0..n}

\* All dicts from a subset of Domain to URI lists.
DictSet ==
    UNION {[K -> BoundedSeq(URI, MaxLen)] : K \in SUBSET Domain}

RECURSIVE DictLen(_, _)
DictLen(d, keys) ==
    IF keys = {} THEN 0
    ELSE LET k == CHOOSE x \in keys : TRUE
         IN  Len(d[k]) + DictLen(d, keys \ {k})

\* All enumeration orders of a set, as sequences without repetition.
Orders(S) ==
    {o \in [1..Cardinality(S) -> S] : \A i, j \in 1..Cardinality(S) : o[i] = o[j] => i = j}

EmptyDict ==
    [k \in {} |-> <<>>]

\* --------------------------------------------------------------- the state
VARIABLES
    static_file,      \* static-nodes.json at the default path: [kind, nodes]
    TEACHER_NODES,    \* the hardcoded table, dict domain -> URI list
    network_domains,  \* the domains argument (a set)
    iter_order,       \* the order in which this process enumerates that set
    arg_is_none,      \* TRUE when the caller passes None as the URI list
    caller_list,      \* the caller's list object passed as the URI list
    original_list,    \* what caller_list held before any call (history)
    calls,            \* results of the aggregate calls made so far (history)
    pc,               \* load_seednodes: "start", "loop", "returned", "raised"
    teacher_uris,     \* load_seednodes: the aggregated list
    teacher_nodes,    \* load_seednodes: the result list
    attempted,        \* URIs handed to Ursula.from_teacher_uri, in time order
    outcomes,         \* what each of those constructions did, in time order
    emitted,          \* emitter.message calls of load_seednodes, in time order
    error,            \* exception that left load_seednodes, or "none"
    ip_pc,            \* determine_external_ip_address: "start", "returned", "raised"
    force,            \* its force argument
    response,         \* what requests.get does: [kind, status_code, text]
    confirm_answer,   \* what click.confirm would answer
    prompt_input,     \* what click.prompt would return
    ip_result,        \* the returned value ("None" for Python's None)
    ip_error,         \* the exception that left it, or "none"
    ip_emitted,       \* emitter.message calls it made
    confirm_calls,    \* number of click.confirm calls
    prompt_calls      \* number of click.prompt calls

seedVars ==
    <<static_file, TEACHER_NODES, network_domains, iter_order, arg_is_none,
      caller_list, original_list, calls, pc, teacher_uris, teacher_nodes,
      attempted, outcomes, emitted, error>>

ipVars ==
    <<ip_pc, force, response, confirm_answer, prompt_input, ip_result,
      ip_error, ip_emitted, confirm_calls, prompt_calls>>

vars ==
    <<seedVars, ipVars>>

\* ------------------------------------------------------- load_static_nodes
\* dict.get(key): the value, or None; None is the empty sequence here, as the
\* callers only test the result for truth.
Get(d, k) ==
    IF k \in DOMAIN d THEN d[k] ELSE <<>>

\* {domain: uris for domain, uris in static_nodes.items() if domain in domains}
FilterDict(d, domains) ==
    [k \in (DOMAIN d) \cap domains |-> d[k]]

\* kind "absent": open() raises FileNotFoundError;  "invalid": json.load
\* raises JSONDecodeError;  "array": json.load returns a list, which has no
\* items();  "object": json.load returns a dict.
load_static_nodes(domains, file) ==
    CASE file.kind = "absent"  -> [raised |-> "none", value |-> EmptyDict]
      [] file.kind = "invalid" -> [raised |-> "RuntimeError", value |-> EmptyDict]
      [] file.kind = "array"   -> [raised |-> "AttributeError", value |-> EmptyDict]
      [] OTHER                 -> [raised |-> "none",
                                   value |-> FilterDict(file.nodes, domains)]

\* ------------------------------------------------- aggregate_seednode_uris
\* ExtendDomain with the two sources taken in the other order.
ExtendDomain_HardcodedFirst(uris, domain, static_nodes, hardcoded) ==
    LET hardcoded_uris == Get(hardcoded, domain)
        with_hardcoded == IF hardcoded_uris # <<>>
                          THEN uris \o hardcoded_uris ELSE uris
        domain_static_nodes == Get(static_nodes, domain)
    IN  IF domain_static_nodes # <<>>
        THEN with_hardcoded \o domain_static_nodes ELSE with_hardcoded

\* One pass of the loop body for a domain: extend by the static nodes, then by
\* the hardcoded teachers.
ExtendDomain(uris, domain, static_nodes, hardcoded) ==
    LET domain_static_nodes == Get(static_nodes, domain)
        with_static == IF domain_static_nodes # <<>>
                       THEN uris \o domain_static_nodes ELSE uris
        hardcoded_uris == Get(hardcoded, domain)
    IN  IF hardcoded_uris # <<>> THEN with_static \o hardcoded_uris ELSE with_static

RECURSIVE ExtendAll(_, _, _, _)
ExtendAll(uris, order, static_nodes, hardcoded) ==
    IF order = <<>> THEN uris
    ELSE ExtendAll(ExtendDomain(uris, Head(order), static_nodes, hardcoded),
                   Tail(order), static_nodes, hardcoded)

\* uris = highest_priority or list(): the argument itself when it is a
\* non-empty list, a fresh list otherwise.
IsAlias(is_none, highest_priority) ==
    ~is_none /\ highest_priority # <<>>

\* The call's outcome: the exception of load_static_nodes, or the list built.
aggregate_seednode_uris(order, is_none, highest_priority, file, hardcoded) ==
    LET loaded == load_static_nodes({order[i] : i \in 1..Len(order)}, file)
        start  == IF IsAlias(is_none, highest_priority) THEN highest_priority ELSE <<>>
    IN  IF loaded.raised # "none"
        THEN [raised |-> loaded.raised, uris |-> <<>>]
        ELSE [raised |-> "none",
              uris |-> ExtendAll(start, order, loaded.value, hardcoded)]

\* What the caller's list object holds after the call: uris.extend() acts on
\* it when uris is the argument itself.
ListAfterCall(is_none, highest_priority, result) ==
    IF result.raised = "none" /\ IsAlias(is_none, highest_priority)
    THEN result.uris
    ELSE highest_priority

\* ---------------------------------------------------------------- initial
StaticFiles ==
    {[kind |-> k, nodes |-> EmptyDict] : k \in {"absent", "invalid", "array"}}
    \cup {[kind |-> "object", nodes |-> d] : d \in DictSet}

InitSeedInputs ==
    /\ TEACHER_NODES \in DictSet
    /\ static_file \in StaticFiles
    /\ arg_is_none \in BOOLEAN
    /\ caller_list \in BoundedSeq(URI, MaxLen)
    /\ arg_is_none => caller_list = <<>>
    /\ DictLen(TEACHER_NODES, DOMAIN TEACHER_NODES)
         + DictLen(static_file.nodes, DOMAIN static_file.nodes)
         + Len(caller_list) <= MaxUris
    /\ network_domains \in SUBSET Domain
    /\ iter_order \in Orders(network_domains)
    /\ original_list = caller_list

InitSeedState ==
    /\ calls = <<>>
    /\ pc = "start"
    /\ teacher_uris = <<>>
    /\ teacher_nodes = <<>>
    /\ attempted = <<>>
    /\ outcomes = <<>>
    /\ emitted = <<>>
    /\ error = "none"

InitIpState ==
    /\ ip_pc = "start"
    /\ ip_result = "None"
    /\ ip_error = "none"
    /\ ip_emitted = <<>>
    /\ confirm_calls = 0
    /\ prompt_calls = 0

InitIpIdle ==
    /\ force = FALSE
    /\ response = [kind |-> "status", status_code |-> 200, text |-> "203.0.113.7"]
    /\ confirm_answer = TRUE
    /\ prompt_input = "203.0.113.7"
    /\ InitIpState

\* ------------------------------------------------ the caller of aggregate
\* One call aggregate_seednode_uris(domains=network_domains,
\* highest_priority=caller_list) by a caller that keeps its list.
Aggregate ==
    /\ Len(calls) < MaxCalls
    /\ LET r == aggregate_seednode_uris(iter_order, arg_is_none, caller_list,
                                        static_file, TEACHER_NODES)
       IN  /\ calls' = Append(calls, [arg |-> caller_list, raised |-> r.raised,
                                   uris |-> r.uris])
           /\ caller_list' = ListAfterCall(arg_is_none, caller_list, r)
    /\ UNCHANGED <<static_file, TEACHER_NODES, network_domains, iter_order,
                   arg_is_none, original_list, pc, teacher_uris, teacher_nodes,
                   attempted, outcomes, emitted, error>>
    /\ UNCHANGED ipVars

InitAggregate ==
    /\ InitSeedInputs
    /\ InitSeedState
    /\ InitIpIdle

NextAggregate ==
    Aggregate

SpecAggregate ==
    InitAggregate /\ [][NextAggregate]_vars

\* ----------------------------------------------------------- load_seednodes
Outcome ==
    {"ok", "NodeSeemsToBeDown", "NotStaking", "Other"}

\* The messages handed to emitter.message.
ConnectingNotice ==
    [text |-> "Connecting to preferred teacher nodes...", uri |-> "-"]

NoPeersNotice ==
    [text |-> "NO_DOMAIN_PEERS", uri |-> "-"]

FailedNotice(uri) ==
    [text |-> "Failed to connect to teacher", uri |-> uri]

NotStakingNotice(uri) ==
    [text |-> "SEEDNODE_NOT_STAKING_WARNING", uri |-> uri]

\* The object Ursula.from_teacher_uri returns for a URI.
Ursula(uri) ==
    [teacher_uri |-> uri]

\* ConstructOne putting an accepted teacher at the front of the result.
ConstructOne_Prepend(nodes, msgs, uri, outcome) ==
    CASE outcome = "NodeSeemsToBeDown" ->
            [nodes |-> nodes, msgs |-> Append(msgs, FailedNotice(uri)), raised |-> "none"]
      [] outcome = "NotStaking" ->
            [nodes |-> nodes, msgs |-> Append(msgs, NotStakingNotice(uri)), raised |-> "none"]
      [] outcome = "ok" ->
            [nodes |-> <<Ursula(uri)>> \o nodes, msgs |-> msgs, raised |-> "none"]
      [] OTHER ->
            [nodes |-> nodes, msgs |-> msgs, raised |-> "Other"]

\* ConstructOne without the "except Teacher.NotStaking" clause.
ConstructOne_NotStakingFatal(nodes, msgs, uri, outcome) ==
    CASE outcome = "NodeSeemsToBeDown" ->
            [nodes |-> nodes, msgs |-> Append(msgs, FailedNotice(uri)), raised |-> "none"]
      [] outcome = "ok" ->
            [nodes |-> Append(nodes, Ursula(uri)), msgs |-> msgs, raised |-> "none"]
      [] OTHER ->
            [nodes |-> nodes, msgs |-> msgs, raised |-> "Other"]

\* One iteration of "for uri in teacher_uris": the try block, its two except
\* clauses and the append.  Any other exception leaves the function.
ConstructOne(nodes, msgs, uri, outcome) ==
    CASE outcome = "NodeSeemsToBeDown" ->
            [nodes |-> nodes, msgs |-> Append(msgs, FailedNotice(uri)), raised |-> "none"]
      [] outcome = "NotStaking" ->
            [nodes |-> nodes, msgs |-> Append(msgs, NotStakingNotice(uri)), raised |-> "none"]
      [] outcome = "ok" ->
            [nodes |-> Append(nodes, Ursula(uri)), msgs |-> msgs, raised |-> "none"]
      [] OTHER ->
            [nodes |-> nodes, msgs |-> msgs, raised |-> "Other"]

\* AfterLoop without the final notice.
AfterLoop_Silent(nodes, msgs) ==
    msgs

\* After the loop: "if not teacher_nodes: emitter.message(NO_DOMAIN_PEERS...)".
AfterLoop(nodes, msgs) ==
    IF nodes = <<>> THEN Append(msgs, NoPeersNotice) ELSE msgs

\* From the entry of load_seednodes to the first construction: the heads-up
\* message, the aggregation, and the early return on an empty list.
LoadSeednodes ==
    /\ pc = "start"
    /\ LET r == aggregate_seednode_uris(iter_order, arg_is_none, caller_list,
                                        static_file, TEACHER_NODES)
       IN  /\ caller_list' = ListAfterCall(arg_is_none, caller_list, r)
           /\ teacher_uris' = r.uris
           /\ error' = r.raised
           /\ IF r.raised # "none"
              THEN /\ pc' = "raised"
                   /\ emitted' = <<ConnectingNotice>>
              ELSE IF r.uris = <<>>
              THEN /\ pc' = "returned"
                   /\ emitted' = <<ConnectingNotice, NoPeersNotice>>
              ELSE /\ pc' = "loop"
                   /\ emitted' = <<ConnectingNotice>>
    /\ UNCHANGED <<static_file, TEACHER_NODES, network_domains, iter_order,
                   arg_is_none, original_list, calls, teacher_nodes, attempted,
                   outcomes>>
    /\ UNCHANGED ipVars

\* One construction attempt on the next URI of the list; after the last URI
\* the function runs to its return.
Construct ==
    /\ pc = "loop"
    /\ \E outcome \in Outcome :
         LET uri == teacher_uris[Len(attempted) + 1]
             r   == ConstructOne(teacher_nodes, emitted, uri, outcome)
             last == Len(attempted) + 1 = Len(teacher_uris)
         IN  /\ attempted' = Append(attempted, uri)
             /\ outcomes' = Append(outcomes, outcome)
             /\ teacher_nodes' = r.nodes
             /\ error' = r.raised
             /\ IF r.raised # "none"
                THEN /\ pc' = "raised"
                     /\ emitted' = r.msgs
                ELSE IF last
                THEN /\ pc' = "returned"
                     /\ emitted' = AfterLoop(r.nodes, r.msgs)
                ELSE /\ pc' = "loop"
                     /\ emitted' = r.msgs
    /\ UNCHANGED <<static_file, TEACHER_NODES, network_domains, iter_order,
                   arg_is_none, caller_list, original_list, calls, teacher_uris>>
    /\ UNCHANGED ipVars

InitBootstrap ==
    /\ InitSeedInputs
    /\ InitSeedState
    /\ InitIpIdle

NextBootstrap ==
    \/ LoadSeednodes
    \/ Construct

SpecBootstrap ==
    InitBootstrap /\ [][NextBootstrap]_vars

\* --------------------------------- get_external_ip_from_centralized_source
HTTP_OK ==
    200

\* get_external_ip_from_centralized_source with the status test inverted.
get_external_ip_Inverted(ip_request) ==
    IF ip_request.kind = "exception"
    THEN [raised |-> "RequestException", value |-> "None"]
    ELSE IF ip_request.status_code # HTTP_OK
    THEN [raised |-> "none", value |-> ip_request.text]
    ELSE [raised |-> "UnknownIPAddress", value |-> "None"]

\* requests.get either raises (no handler here) or gives a response whose
\* status code decides between the text and UnknownIPAddress.
get_external_ip_from_centralized_source(ip_request) ==
    IF ip_request.kind = "exception"
    THEN [raised |-> "RequestException", value |-> "None"]
    ELSE IF ip_request.status_code = HTTP_OK
    THEN [raised |-> "none", value |-> ip_request.text]
    ELSE [raised |-> "UnknownIPAddress", value |-> "None"]

\* --------------------------------------------- determine_external_ip_address
\* The result: [raised, value, msgs, confirms, prompts].  The except clause
\* re-raises only under force; otherwise control leaves the try statement and
\* reaches the end of the function, which returns None.
determine_external_ip_address(is_forced, ip_request, confirmed, typed) ==
    LET got == get_external_ip_from_centralized_source(ip_request)
    IN  IF got.raised = "UnknownIPAddress"
        THEN IF is_forced
             THEN [raised |-> "UnknownIPAddress", value |-> "None", msgs |-> <<>>,
                   confirms |-> 0, prompts |-> 0]
             ELSE [raised |-> "none", value |-> "None", msgs |-> <<>>,
                   confirms |-> 0, prompts |-> 0]
        ELSE IF got.raised # "none"
        THEN [raised |-> got.raised, value |-> "None", msgs |-> <<>>,
              confirms |-> 0, prompts |-> 0]
        ELSE IF ~is_forced
        THEN IF ~confirmed
             THEN [raised |-> "none", value |-> typed, msgs |-> <<>>,
                   confirms |-> 1, prompts |-> 1]
             ELSE [raised |-> "none", value |-> got.value, msgs |-> <<>>,
                   confirms |-> 1, prompts |-> 0]
        ELSE [raised |-> "none", value |-> got.value,
              msgs |-> <<[text |-> "FORCE_DETECT_URSULA_IP_WARNING", rest_host |-> got.value]>>,
              confirms |-> 0, prompts |-> 0]

Responses ==
    {[kind |-> "status", status_code |-> c, text |-> a] :
        c \in {200, 404, 500}, a \in Address}
    \cup {[kind |-> "exception", status_code |-> 0, text |-> "-"]}

Resolve ==
    /\ ip_pc = "start"
    /\ LET r == determine_external_ip_address(force, response, confirm_answer,
                                              prompt_input)
       IN  /\ ip_pc' = IF r.raised = "none" THEN "returned" ELSE "raised"
           /\ ip_result' = r.value
           /\ ip_error' = r.raised
           /\ ip_emitted' = r.msgs
           /\ confirm_calls' = r.confirms
           /\ prompt_calls' = r.prompts
    /\ UNCHANGED <<force, response, confirm_answer, prompt_input>>
    /\ UNCHANGED seedVars

InitResolve ==
    /\ TEACHER_NODES = EmptyDict
    /\ static_file = [kind |-> "absent", nodes |-> EmptyDict]
    /\ arg_is_none = TRUE
    /\ caller_list = <<>>
    /\ network_domains = {}
    /\ iter_order = <<>>
    /\ original_list = <<>>
    /\ InitSeedState
    /\ force \in BOOLEAN
    /\ response \in Responses
    /\ confirm_answer \in BOOLEAN
    /\ prompt_input \in Address
    /\ InitIpState

NextResolve ==
    Resolve

SpecResolve ==
    InitResolve /\ [][NextResolve]_vars

\* ================================================================= claims
\* What the static-node file stores for a domain (nothing when the file is
\* absent or has no entry for it), and what the hardcoded table stores.
StoredStatic(d) ==
    IF static_file.kind = "object" /\ d \in DOMAIN static_file.nodes
    THEN static_file.nodes[d] ELSE <<>>

StoredHardcoded(d) ==
    IF d \in DOMAIN TEACHER_NODES THEN TEACHER_NODES[d] ELSE <<>>

RECURSIVE Contributions(_)
Contributions(order) ==
    IF order = <<>> THEN <<>>
    ELSE StoredStatic(order[1]) \o StoredHardcoded(order[1])
         \o Contributions(SubSeq(order, 2, Len(order)))

RECURSIVE ContributionLen(_)
ContributionLen(ds) ==
    IF ds = {} THEN 0
    ELSE LET d == CHOOSE x \in ds : TRUE
         IN  Len(StoredStatic(d)) + Len(StoredHardcoded(d)) + ContributionLen(ds \ {d})

\* C1: with a static-node file that is absent or a mapping, every call of
\* aggregate_seednode_uris returns the highest_priority URIs in their order,
\* followed for each requested domain in turn by its static-file URIs and
\* then its hardcoded URIs, each in stored order; a domain in neither source
\* adds nothing and raises nothing; duplicates are kept, so the length is the
\* sum of the lengths of the contributing lists.
C1_AggregateOrder ==
    \A i \in 1..Len(calls) :
        static_file.kind \in {"absent", "object"} =>
            /\ calls[i].raised = "none"
            /\ calls[i].uris = calls[i].arg \o Contributions(iter_order)
            /\ Len(calls[i].uris) = Len(calls[i].arg) + ContributionLen(network_domains)

\* A call with a priority URI, a domain served by both sources (the same URI
\* twice over the output) and a requested domain in neither source.
C1_Witness ==
    /\ Len(calls) >= 1
    /\ calls[1].arg # <<>>
    /\ network_domains = Domain
    /\ \E d \in Domain : StoredStatic(d) # <<>> /\ StoredHardcoded(d) # <<>>
    /\ \E d \in Domain : d \notin DOMAIN TEACHER_NODES /\ d \notin DOMAIN static_file.nodes
    /\ \E j, k \in 1..Len(calls[1].uris) : j # k /\ calls[1].uris[j] = calls[1].uris[k]

RECURSIVE Successful(_, _)
Successful(uris, outs) ==
    IF uris = <<>> \/ outs = <<>> THEN <<>>
    ELSE (IF outs[1] = "ok" THEN <<[teacher_uri |-> uris[1]]>> ELSE <<>>)
         \o Successful(SubSeq(uris, 2, Len(uris)), SubSeq(outs, 2, Len(outs)))

\* C2: when load_seednodes returns, its result is exactly the candidates of
\* the entries whose construction succeeded, one per such entry, in the order
\* of those entries in the aggregated list, with nothing for a failed entry.
C2_ResultIsSuccessfulInOrder ==
    pc = "returned" =>
        /\ Len(outcomes) = Len(teacher_uris)
        /\ teacher_nodes = Successful(teacher_uris, outcomes)

\* Three entries, the middle one unreachable, the other two accepted.
C2_Witness ==
    /\ pc = "returned"
    /\ Len(teacher_uris) = 3
    /\ outcomes = <<"ok", "NodeSeemsToBeDown", "ok">>
    /\ teacher_uris[1] # teacher_uris[3]
    /\ Len(teacher_nodes) = 2

\* C3: a static-node file that exists but is not a domain-to-list mapping
\* (unparseable, or JSON of another shape such as an array) makes every
\* aggregate call fail with the invalid-JSON error (RuntimeError).
C3_MalformedFileIsConfigurationError ==
    \A i \in 1..Len(calls) :
        static_file.kind \in {"invalid", "array"} => calls[i].raised = "RuntimeError"

QueryFailed ==
    response.kind = "exception" \/ response.status_code # 200

\* C4: when the address-echo query fails and force is false,
\* determine_external_ip_address raises UnknownIPAddress: it does not return,
\* and it invokes no prompt.
C4_FailedQueryWithoutForceIsFatal ==
    (ip_pc # "start" /\ QueryFailed /\ ~force) =>
        /\ ip_pc = "raised"
        /\ ip_error = "UnknownIPAddress"
        /\ confirm_calls = 0
        /\ prompt_calls = 0

\* C5: two successive aggregate calls with the same domains and the same
\* highest_priority list, the file and the table unchanged, return the same
\* sequence.
C5_AggregateIdempotent ==
    \A i \in 1..Len(calls) : \A j \in 1..Len(calls) :
        (calls[i].raised = "none" /\ calls[j].raised = "none")
            => calls[i].uris = calls[j].uris

NoPeersCount ==
    Cardinality({i \in 1..Len(emitted) : emitted[i] = NoPeersNotice})

\* C6: whenever load_seednodes returns an empty result, exactly one no-peers
\* notice has been emitted; with an empty aggregated list it returns without
\* any construction attempt.
C6_EmptyResultOneNotice ==
    /\ (pc = "returned" /\ teacher_nodes = <<>>) => NoPeersCount = 1
    /\ (pc = "returned" /\ teacher_uris = <<>>) => attempted = <<>>

\* Every URI of a non-empty list failed with a recovered failure.
C6_Witness ==
    /\ pc = "returned"
    /\ teacher_nodes = <<>>
    /\ Len(attempted) >= 2
    /\ NoPeersCount = 1

\* C7: with force, determine_external_ip_address raises UnknownIPAddress for
\* every status other than 200 and for a network failure of the request; no
\* address is returned and no prompt is invoked.
C7_ForcedFailureIsUnknownAddress ==
    (ip_pc # "start" /\ QueryFailed /\ force) =>
        /\ ip_pc = "raised"
        /\ ip_error = "UnknownIPAddress"
        /\ confirm_calls = 0
        /\ prompt_calls = 0

\* C8: on status 200, with force the body is returned after exactly one
\* warning and no prompt; without force the body is returned when the
\* confirmation is accepted and the typed address otherwise, the input
\* prompt being invoked only after a rejected confirmation.
C8_SuccessfulQuery ==
    (ip_pc # "start" /\ ~QueryFailed) =>
        /\ ip_pc = "returned"
        /\ force => /\ ip_result = response.text
                    /\ Len(ip_emitted) = 1
                    /\ confirm_calls = 0
                    /\ prompt_calls = 0
        /\ (~force /\ confirm_answer) => /\ ip_result = response.text
                                         /\ confirm_calls = 1
                                         /\ prompt_calls = 0
        /\ (~force /\ ~confirm_answer) => /\ ip_result = prompt_input
                                          /\ confirm_calls = 1
                                          /\ prompt_calls = 1

\* A rejected confirmation replaced the detected address by a different one.
C8_Witness ==
    /\ ip_pc = "returned"
    /\ ~QueryFailed
    /\ ~force
    /\ ~confirm_answer
    /\ prompt_input # response.text
    /\ ip_result = prompt_input

\* C9: aggregate_seednode_uris leaves the caller's highest_priority list as
\* it was.
C9_ArgumentUnchanged ==
    caller_list = original_list

IsPerUri(m) ==
    m.uri # "-"

RECURSIVE RecoveredNotices(_, _)
RecoveredNotices(uris, outs) ==
    IF uris = <<>> \/ outs = <<>> THEN <<>>
    ELSE (CASE outs[1] = "NodeSeemsToBeDown" ->
                  <<[text |-> "Failed to connect to teacher", uri |-> uris[1]]>>
            [] outs[1] = "NotStaking" ->
                  <<[text |-> "SEEDNODE_NOT_STAKING_WARNING", uri |-> uris[1]]>>
            [] OTHER -> <<>>)
         \o RecoveredNotices(SubSeq(uris, 2, Len(uris)), SubSeq(outs, 2, Len(outs)))

\* C10: in the loop of load_seednodes an unreachable or not-staking failure
\* costs exactly one per-URI notice and nothing else: the URIs are attempted
\* once each in list order, all of them when the function returns; a failure
\* of another kind is the last attempt and leaves the function.
C10_RecoveredFailuresContinue ==
    /\ Len(outcomes) = Len(attempted)
    /\ Len(attempted) <= Len(teacher_uris)
    /\ attempted = SubSeq(teacher_uris, 1, Len(attempted))
    /\ SelectSeq(emitted, IsPerUri) = RecoveredNotices(attempted, outcomes)
    /\ pc = "loop" => Len(attempted) < Len(teacher_uris)
    /\ (pc = "returned" /\ error = "none") => Len(attempted) = Len(teacher_uris)
    /\ \A i \in 1..Len(outcomes) :
           outcomes[i] = "Other" <=> (i = Len(outcomes) /\ pc = "raised" /\ error = "Other")

\* Both recovered failures happened early and the later URIs were attempted.
C10_Witness ==
    /\ pc = "returned"
    /\ outcomes = <<"NodeSeemsToBeDown", "NotStaking", "ok">>
    /\ attempted = teacher_uris
    /\ Len(SelectSeq(emitted, IsPerUri)) = 2

====
